---------------------------- MODULE Spec2Model ----------------------------
(***************************************************************************)
(* A model of the UCI client library in src/src/lib.rs (struct Engine).    *)
(*                                                                         *)
(* Text is modelled as a sequence of lexical atoms.  An atom is a TLA+     *)
(* string standing for the very characters it spells: a protocol word      *)
(* ("bestmove", "cp"), a run of digits ("1933"), a sign ("-"), or one      *)
(* whitespace character (" ", "\t", "\r", "\n").  No atom is the            *)
(* concatenation of other atoms, so two texts are equal exactly when their *)
(* atom sequences are equal.                                               *)
(***************************************************************************)
EXTENDS Integers, Sequences, FiniteSets, TLC

VARIABLES
    pc,        \* where the caller stands: before new, inside a call, idle
    op,        \* the public operation in progress, or the last one
    args,      \* the arguments of that operation
    result,    \* what that operation returned
    engine,    \* the child process: "none", "running", "exited"
    out,       \* bytes the engine wrote to its stdout and nobody read yet
    wrote,     \* lines the operation in progress wrote to the engine's stdin
    consumed,  \* lines read_line returned to the operation in progress
    info,      \* evaluation's local `info`
    acc,       \* read_left_output's local `s`
    lineBuf,   \* read_line's local `s` while it loops on a closed stream
    eofReads,  \* reads that returned Ok(0) to the operation in progress
    fresh,     \* lines the engine wrote since op was entered, where they are counted
    movetime,  \* Engine.movetime
    depth      \* Engine.depth: <<>> is None, <<d>> is Some(d)

vars == <<pc, op, args, result, engine, out, wrote, consumed,
          info, acc, lineBuf, eofReads, fresh, movetime, depth>>

----------------------------------------------------------------------------
(* Bounds of the model.                                                    *)

MaxEmit == 3

MaxSpin == 2

----------------------------------------------------------------------------
(* Text helpers: the std functions the code calls.                         *)

NL == "\n"

SP == " "

\* char::is_whitespace, on the whitespace atoms of the model
IsWs(a) == a \in {" ", "\t", "\r", "\n"}

RECURSIVE TrimStart(_)
TrimStart(s) ==
    IF s = <<>> THEN <<>>
    ELSE IF IsWs(Head(s)) THEN TrimStart(Tail(s)) ELSE s

RECURSIVE TrimEnd(_)
TrimEnd(s) ==
    IF s = <<>> THEN <<>>
    ELSE IF IsWs(s[Len(s)]) THEN TrimEnd(SubSeq(s, 1, Len(s) - 1)) ELSE s

\* str::trim
Trim(s) == TrimEnd(TrimStart(s))

\* str::starts_with(word), word being one atom
StartsWith(s, word) == Len(s) >= 1 /\ s[1] = word

\* str::split(sep).collect::<Vec<&str>>(): never empty, "" splits to [""]
RECURSIVE SplitFrom(_, _, _)
SplitFrom(s, sep, cur) ==
    IF s = <<>> THEN <<cur>>
    ELSE IF Head(s) = sep THEN <<cur>> \o SplitFrom(Tail(s), sep, <<>>)
    ELSE SplitFrom(Tail(s), sep, Append(cur, Head(s)))

Split(s, sep) == SplitFrom(s, sep, <<>>)

\* [String]::join(sep)
RECURSIVE Join(_, _)
Join(list, sep) ==
    IF list = <<>> THEN <<>>
    ELSE IF Len(list) = 1 THEN list[1]
    ELSE list[1] \o <<sep>> \o Join(Tail(list), sep)

\* the digit-run atoms of the model and the numbers they spell (all of them
\* within the range of i32)
Numerals ==
    ("1" :> 1) @@ ("3" :> 3) @@ ("5" :> 5) @@ ("7" :> 7) @@ ("23" :> 23)
    @@ ("1933" :> 1933)

NoInt == [ok |-> FALSE, val |-> 0]

\* str::parse::<i32>: an optional sign, then digits and nothing else
ParseI32(tok) ==
    LET body == IF Len(tok) >= 1 /\ tok[1] \in {"-", "+"} THEN Tail(tok) ELSE tok
        neg  == Len(tok) >= 1 /\ tok[1] = "-"
    IN  IF Len(body) = 1 /\ body[1] \in DOMAIN Numerals
        THEN [ok |-> TRUE, val |-> IF neg THEN -Numerals[body[1]] ELSE Numerals[body[1]]]
        ELSE NoInt

\* Display of the u32 values the sessions of the model are configured with
Decimal == (1 :> "1") @@ (40 :> "40") @@ (50 :> "50") @@ (100 :> "100")

----------------------------------------------------------------------------
(* The environment: what the engine may write, what the caller may pass.   *)

BestmoveOnly == <<"bestmove", " ", "f3f2", NL>>

BestmoveBare == <<"bestmove", NL>>

InfoCp == <<"info", " ", "score", " ", "cp", " ", "-", "1933", " ", "nodes", " ", "1", NL>>

InfoCpLast == <<"info", " ", "score", " ", "cp", " ", "23", NL>>

InfoCpEnd == <<"info", " ", "score", " ", "cp", NL>>

InfoMate == <<"info", " ", "score", " ", "mate", " ", "3", NL>>

InfoTwoCp == <<"info", " ", "cp", " ", "5", " ", "cp", " ", "7", " ", "pv", NL>>

ReadyOk == <<"readyok", NL>>

NotReadyOk == <<" ", "info", " ", "readyok", NL>>

BlankLine == <<" ", NL>>

\* the lines an engine of the model writes, each ended by its newline
EngineLines ==
    {BestmoveOnly, BestmoveBare, InfoCp, InfoCpLast, InfoCpEnd, InfoMate,
     InfoTwoCp, ReadyOk, NotReadyOk, BlankLine}

\* the lines of an engine that answers and says nothing else
TerseLines == {ReadyOk, BestmoveOnly, InfoCp}

\* what an engine that dies in the middle of a line leaves in the pipe
Fragments == {<<>>, <<"info", " ", "depth">>}

LongMoves == << <<"e2e4">>, <<"e7e5">> >>

\* lists of moves, each move a text of one atom
MoveLists == {<<>>, << <<"e2e4">> >>, LongMoves}

Fens == {<<"6b1/8/1k5P/8/1P3B2/5pp1/8/4K3", " ", "b", " ", "-", " ", "-", " ", "0", " ", "1">>}

OptionNames == {<<"Skill", " ", "Level">>}

OptionValues == {<<"15">>}

RawCommands == {<<" ", "go", " ", "depth", " ", "10", NL>>}

Movetimes == {50, 100}

Depths == {<<>>, <<1>>}

----------------------------------------------------------------------------
(* Values of the model.                                                    *)

NoArgs == [name |-> <<>>, value |-> <<>>, cmd |-> <<>>, fen |-> <<>>,
           moves |-> <<>>, movetime |-> 0, depth |-> <<>>]

NoResult == [kind |-> "none", err |-> "", name |-> <<>>, str |-> <<>>, num |-> 0]

OkUnit == [NoResult EXCEPT !.kind = "Ok"]

OkStr(s) == [NoResult EXCEPT !.kind = "Ok", !.str = s]

OkNum(n) == [NoResult EXCEPT !.kind = "Ok", !.num = n]

\* EngineError::Io
ErrIo == [NoResult EXCEPT !.kind = "Err", !.err = "Io"]

\* EngineError::NotFound
ErrNotFound == [NoResult EXCEPT !.kind = "Err", !.err = "NotFound"]

\* EngineError::UnknownOption(name)
ErrUnknownOption(name) ==
    [NoResult EXCEPT !.kind = "Err", !.err = "UnknownOption", !.name = name]

\* a panic: the call returns nothing, the thread unwinds
Panic == [NoResult EXCEPT !.kind = "Panic"]

DEFAULT_TIME == 100

----------------------------------------------------------------------------
(* read_line and write_fmt.                                                *)

HasNewline(stream) == \E i \in 1..Len(stream) : stream[i] = NL

\* read_line's loop on a stream that holds a newline: push each byte read,
\* stop after the newline.  Yields the line and what is left in the pipe.
RECURSIVE ReadLoop(_, _)
ReadLoop(stream, s) ==
    LET byte == Head(stream) IN
    IF byte = NL
    THEN [line |-> Append(s, byte), rest |-> Tail(stream)]
    ELSE ReadLoop(Tail(stream), Append(s, byte))

\* ReadLine, had it taken all that a buffered read delivers, up to the last
\* newline in the pipe
ReadLineGreedy(stream) ==
    LET last == CHOOSE i \in 1..Len(stream) :
                    /\ stream[i] = NL
                    /\ \A j \in (i + 1)..Len(stream) : stream[j] /= NL
    IN  [line |-> SubSeq(stream, 1, last), rest |-> SubSeq(stream, last + 1, Len(stream))]

ReadLine(stream) == ReadLoop(stream, <<>>)

\* the number of whole lines in the pipe
Pending == Cardinality({i \in 1..Len(out) : out[i] = NL})

\* the calls that stand in a loop around read_line
Reading == {"new_banner", "sync", "bm", "ev"}

\* write_fmt succeeds while the child holds the other end of the pipe
CanWrite == engine = "running"

----------------------------------------------------------------------------
(* The command lines the code formats.                                     *)

\* make_moves: "position startpos moves {}\n"
StartposLine(moves) ==
    <<"position", " ", "startpos", " ", "moves", " ">> \o Join(moves, " ") \o <<NL>>

\* FenLine, had it left the moves clause out for an empty list
FenLineNoEmptyMoves(fen, moves) ==
    IF moves = <<>>
    THEN <<"position", " ", "fen", " ">> \o fen \o <<NL>>
    ELSE <<"position", " ", "fen", " ">> \o fen \o <<" ", "moves", " ">>
            \o Join(moves, " ") \o <<NL>>

\* make_moves_from_position: "position fen {} moves {}\n"
FenLine(fen, moves) ==
    <<"position", " ", "fen", " ">> \o fen \o <<" ", "moves", " ">>
        \o Join(moves, " ") \o <<NL>>

\* GoLine, had it left the depth clause out
GoLineWithoutDepth(mt, d) == <<"go", " ", "movetime", " ", Decimal[mt], NL>>

\* do_move: "go movetime {movetime} depth {depth}\n" or "go movetime {movetime}\n"
GoLine(mt, d) ==
    IF d /= <<>>
    THEN <<"go", " ", "movetime", " ", Decimal[mt], " ", "depth", " ", Decimal[d[1]], NL>>
    ELSE <<"go", " ", "movetime", " ", Decimal[mt], NL>>

\* set_option: "setoption name {} value {}\n"
SetOptionLine(name, value) ==
    <<"setoption", " ", "name", " ">> \o name \o <<" ", "value", " ">> \o value \o <<NL>>

\* command: "{}\n" of cmd.trim()
CommandLine(cmd) == Trim(cmd) \o <<NL>>

IsReadyLine == <<"isready", NL>>

UciCommand == <<"uci">>

----------------------------------------------------------------------------
(* What the calls compute from the lines they read.                        *)

\* bestmove: s.split(" ").collect::<Vec<&str>>()[1].trim().to_string()
BestmoveField(s) ==
    LET parts == Split(s, " ")
    IN  IF Len(parts) >= 2 THEN OkStr(Trim(parts[2])) ELSE Panic

\* parts.iter().enumerate().find(|(_i, v)| *v == &"cp"): the first match from
\* position i on, 0 when there is none (positions count from 1 here)
RECURSIVE FindCp(_, _)
FindCp(parts, i) ==
    IF i > Len(parts) THEN 0
    ELSE IF parts[i] = <<"cp">> THEN i
    ELSE FindCp(parts, i + 1)

\* EvaluationParse, had it looked for the last "cp" instead of the first
EvaluationParseLastCp(line) ==
    LET parts == Split(line, " ")
        at    == {i \in 1..Len(parts) : parts[i] = <<"cp">>}
    IN  IF at = {} THEN ErrNotFound
        ELSE LET cp_index == (CHOOSE i \in at : \A j \in at : j <= i) + 1
             IN  IF cp_index > Len(parts) THEN Panic
                 ELSE LET n == ParseI32(parts[cp_index])
                      IN  IF n.ok THEN OkNum(n.val) ELSE ErrNotFound

\* EvaluationParse, had it taken a line without "cp" for a score of 0
EvaluationParseNoCpIsZero(line) ==
    LET parts == Split(line, " ")
        found == FindCp(parts, 1)
    IN  IF found = 0 THEN OkNum(0)
        ELSE LET cp_index == found + 1
             IN  IF cp_index > Len(parts) THEN Panic
                 ELSE LET n == ParseI32(parts[cp_index])
                      IN  IF n.ok THEN OkNum(n.val) ELSE ErrNotFound

\* evaluation, from the split of `info` to the returned value
EvaluationParse(line) ==
    LET parts == Split(line, " ")
        found == FindCp(parts, 1)
    IN  IF found = 0 THEN ErrNotFound
        ELSE LET cp_index == found + 1
             IN  IF cp_index > Len(parts) THEN Panic
                 ELSE LET n == ParseI32(parts[cp_index])
                      IN  IF n.ok THEN OkNum(n.val) ELSE ErrNotFound

\* SetOptionResult, had it tested the text without trimming it
SetOptionResultNoTrim(name, error_msg) ==
    IF error_msg = <<>> THEN OkUnit ELSE ErrUnknownOption(name)

\* set_option, from read_left_output's text to the returned value
SetOptionResult(name, error_msg) ==
    IF Trim(error_msg) = <<>> THEN OkUnit ELSE ErrUnknownOption(name)

\* what the caller of read_left_output returns for its text
SyncResult(o, a, text) ==
    IF o = "set_option" THEN SetOptionResult(a.name, text)
    ELSE IF o = "command" THEN OkStr(text)
    ELSE OkUnit

----------------------------------------------------------------------------
(* Init and the steps of the caller.                                       *)

Init ==
    /\ pc = "start"
    /\ op = "none"
    /\ args = NoArgs
    /\ result = NoResult
    /\ engine = "none"
    /\ out = <<>>
    /\ wrote = <<>>
    /\ consumed = <<>>
    /\ info = <<>>
    /\ acc = <<>>
    /\ lineBuf = <<>>
    /\ eofReads = 0
    /\ fresh = 0
    /\ movetime = DEFAULT_TIME
    /\ depth = <<>>

\* a public method is entered: its locals are fresh
Begin(o, a) ==
    /\ op' = o
    /\ args' = a
    /\ consumed' = <<>>
    /\ info' = <<>>
    /\ acc' = <<>>
    /\ lineBuf' = <<>>
    /\ eofReads' = 0
    /\ fresh' = 0

\* the operation in progress ends with r: new hands out a session only on
\* Ok, a panic unwinds the caller
Return(r) ==
    /\ result' = r
    /\ pc' = IF r.kind = "Panic" THEN "panicked"
             ELSE IF op' = "new" /\ r.kind /= "Ok" THEN "failed"
             ELSE "idle"

\* write the lines ls and go on at pc next, or fail on the first write
WriteThen(ls, next) ==
    IF CanWrite
    THEN wrote' = wrote \o ls /\ pc' = next /\ result' = NoResult
    ELSE wrote' = wrote /\ Return(ErrIo)

\* the same for the first write of a call
FirstWriteThen(ls, next) ==
    IF CanWrite
    THEN wrote' = ls /\ pc' = next /\ result' = NoResult
    ELSE wrote' = <<>> /\ Return(ErrIo)

\* NewSpawn, had it returned the failure of the spawn as an error value
NewSpawnReturnsErr(spawned) ==
    /\ pc = "start"
    /\ Begin("new", NoArgs)
    /\ wrote' = <<>>
    /\ IF spawned
       THEN engine' = "running" /\ pc' = "new_banner" /\ result' = NoResult
       ELSE engine' = engine /\ Return(ErrIo)
    /\ UNCHANGED <<out, movetime, depth>>

\* Engine::new, the spawn: expect() panics when the child cannot be started
NewSpawn(spawned) ==
    /\ pc = "start"
    /\ Begin("new", NoArgs)
    /\ wrote' = <<>>
    /\ IF spawned
       THEN engine' = "running" /\ pc' = "new_banner" /\ result' = NoResult
       ELSE engine' = engine /\ Return(Panic)
    /\ UNCHANGED <<out, movetime, depth>>

\* NewBanner, had it written uci and returned without waiting for anything
NewBannerFireAndForget ==
    /\ pc = "new_banner"
    /\ HasNewline(out)
    /\ LET r == ReadLine(out) IN
        /\ out' = r.rest
        /\ consumed' = Append(consumed, r.line)
    /\ op' = op
    /\ IF CanWrite
       THEN wrote' = <<CommandLine(UciCommand)>> /\ Return(OkUnit)
       ELSE wrote' = <<>> /\ Return(ErrIo)
    /\ UNCHANGED <<fresh, args, engine, info, acc, lineBuf, eofReads, movetime, depth>>

\* Engine::new, res.read_line()? and then res.command("uci") up to its sleep
NewBanner ==
    /\ pc = "new_banner"
    /\ HasNewline(out)
    /\ LET r == ReadLine(out) IN
        /\ out' = r.rest
        /\ consumed' = Append(consumed, r.line)
    /\ op' = op
    /\ FirstWriteThen(<<CommandLine(UciCommand)>>, "cmd_sleep")
    /\ UNCHANGED <<fresh, args, engine, info, acc, lineBuf, eofReads, movetime, depth>>

\* Engine::movetime
Movetime(new_movetime) ==
    /\ pc = "idle"
    /\ Begin("movetime", [NoArgs EXCEPT !.movetime = new_movetime])
    /\ movetime' = new_movetime
    /\ wrote' = <<>>
    /\ Return(OkUnit)
    /\ UNCHANGED <<engine, out, depth>>

\* Engine::depth
Depth(new_depth) ==
    /\ pc = "idle"
    /\ Begin("depth", [NoArgs EXCEPT !.depth = new_depth])
    /\ depth' = new_depth
    /\ wrote' = <<>>
    /\ Return(OkUnit)
    /\ UNCHANGED <<engine, out, movetime>>

\* MakeMoves, had it read a line of acknowledgment when one stood in the pipe
MakeMovesReadsAck(moves) ==
    /\ pc = "idle"
    /\ Begin("make_moves", [NoArgs EXCEPT !.moves = moves])
    /\ IF CanWrite
       THEN wrote' = <<StartposLine(moves)>> /\ Return(OkUnit)
       ELSE wrote' = <<>> /\ Return(ErrIo)
    /\ out' = IF CanWrite /\ HasNewline(out) THEN ReadLine(out).rest ELSE out
    /\ UNCHANGED <<engine, movetime, depth>>

\* Engine::make_moves
MakeMoves(moves) ==
    /\ pc = "idle"
    /\ Begin("make_moves", [NoArgs EXCEPT !.moves = moves])
    /\ IF CanWrite
       THEN wrote' = <<StartposLine(moves)>> /\ Return(OkUnit)
       ELSE wrote' = <<>> /\ Return(ErrIo)
    /\ UNCHANGED <<engine, out, movetime, depth>>

\* Engine::make_moves_from_position
MakeMovesFromPosition(fen, moves) ==
    /\ pc = "idle"
    /\ Begin("make_moves_from_position", [NoArgs EXCEPT !.fen = fen, !.moves = moves])
    /\ IF CanWrite
       THEN wrote' = <<FenLine(fen, moves)>> /\ Return(OkUnit)
       ELSE wrote' = <<>> /\ Return(ErrIo)
    /\ UNCHANGED <<engine, out, movetime, depth>>

\* Engine::set_position: make_moves_from_position(fen, &vec![])
SetPosition(fen) ==
    /\ pc = "idle"
    /\ Begin("set_position", [NoArgs EXCEPT !.fen = fen])
    /\ IF CanWrite
       THEN wrote' = <<FenLine(fen, <<>>)>> /\ Return(OkUnit)
       ELSE wrote' = <<>> /\ Return(ErrIo)
    /\ UNCHANGED <<engine, out, movetime, depth>>

\* Engine::bestmove, up to its loop: do_move
BestmoveCall ==
    /\ pc = "idle"
    /\ Begin("bestmove", NoArgs)
    /\ FirstWriteThen(<<GoLine(movetime, depth)>>, "bm")
    /\ UNCHANGED <<engine, out, movetime, depth>>

\* BestmoveRead, had it taken the first line it reads for the answer
BestmoveReadAnyLine ==
    /\ pc = "bm"
    /\ op' = op
    /\ HasNewline(out)
    /\ LET r == ReadLine(out) IN
        /\ out' = r.rest
        /\ consumed' = Append(consumed, r.line)
        /\ Return(BestmoveField(r.line))
    /\ UNCHANGED <<fresh, args, engine, wrote, info, acc, lineBuf, eofReads,
                   movetime, depth>>

\* Engine::bestmove, one turn of its loop
BestmoveRead ==
    /\ pc = "bm"
    /\ op' = op
    /\ HasNewline(out)
    /\ LET r == ReadLine(out) IN
        /\ out' = r.rest
        /\ consumed' = Append(consumed, r.line)
        /\ IF StartsWith(r.line, "bestmove")
           THEN Return(BestmoveField(r.line))
           ELSE pc' = pc /\ result' = result
    /\ UNCHANGED <<fresh, args, engine, wrote, info, acc, lineBuf, eofReads,
                   movetime, depth>>

\* Engine::evaluation, up to its loop: do_move
EvaluationCall ==
    /\ pc = "idle"
    /\ Begin("evaluation", NoArgs)
    /\ FirstWriteThen(<<GoLine(movetime, depth)>>, "ev")
    /\ UNCHANGED <<engine, out, movetime, depth>>

\* EvaluationRead, had it kept the first info line instead of the latest
EvaluationReadKeepsFirst ==
    /\ pc = "ev"
    /\ op' = op
    /\ HasNewline(out)
    /\ LET r == ReadLine(out)
           kept == IF StartsWith(r.line, "info") /\ info = <<>> THEN r.line ELSE info
       IN
        /\ out' = r.rest
        /\ consumed' = Append(consumed, r.line)
        /\ info' = kept
        /\ IF StartsWith(r.line, "bestmove")
           THEN Return(EvaluationParse(kept))
           ELSE pc' = pc /\ result' = result
    /\ UNCHANGED <<fresh, args, engine, wrote, acc, lineBuf, eofReads, movetime, depth>>

\* EvaluationRead, had the reader handed over its lines without their newline
EvaluationReadDropsNewline ==
    /\ pc = "ev"
    /\ op' = op
    /\ HasNewline(out)
    /\ LET r == ReadLine(out)
           s == SubSeq(r.line, 1, Len(r.line) - 1)
           kept == IF StartsWith(s, "info") THEN s ELSE info
       IN
        /\ out' = r.rest
        /\ consumed' = Append(consumed, r.line)
        /\ info' = kept
        /\ IF StartsWith(s, "bestmove")
           THEN Return(EvaluationParse(kept))
           ELSE pc' = pc /\ result' = result
    /\ UNCHANGED <<fresh, args, engine, wrote, acc, lineBuf, eofReads, movetime, depth>>

\* Engine::evaluation, one turn of its loop and, after the break, the parse
EvaluationRead ==
    /\ pc = "ev"
    /\ op' = op
    /\ HasNewline(out)
    /\ LET r == ReadLine(out)
           kept == IF StartsWith(r.line, "info") THEN r.line ELSE info
       IN
        /\ out' = r.rest
        /\ consumed' = Append(consumed, r.line)
        /\ info' = kept
        /\ IF StartsWith(r.line, "bestmove")
           THEN Return(EvaluationParse(kept))
           ELSE pc' = pc /\ result' = result
    /\ UNCHANGED <<fresh, args, engine, wrote, acc, lineBuf, eofReads,
                   movetime, depth>>

\* Engine::set_option, up to read_left_output's loop
SetOptionCall(name, value) ==
    /\ pc = "idle"
    /\ Begin("set_option", [NoArgs EXCEPT !.name = name, !.value = value])
    /\ FirstWriteThen(<<SetOptionLine(name, value), IsReadyLine>>, "sync")
    /\ UNCHANGED <<engine, out, movetime, depth>>

\* Engine::command, up to its sleep
CommandCall(cmd) ==
    /\ pc = "idle"
    /\ Begin("command", [NoArgs EXCEPT !.cmd = cmd])
    /\ FirstWriteThen(<<CommandLine(cmd)>>, "cmd_sleep")
    /\ UNCHANGED <<engine, out, movetime, depth>>

\* Engine::command after its sleep: read_left_output up to its loop
CommandWake ==
    /\ pc = "cmd_sleep"
    /\ op' = op
    /\ WriteThen(<<IsReadyLine>>, "sync")
    /\ UNCHANGED <<fresh, args, engine, out, consumed, info, acc, lineBuf,
                   eofReads, movetime, depth>>

\* SyncRead, had it pushed each line untrimmed but for its newline
SyncReadKeepsBlanks ==
    /\ pc = "sync"
    /\ HasNewline(out)
    /\ op' = op
    /\ LET r == ReadLine(out)
           next_line == Trim(r.line)
       IN
        /\ out' = r.rest
        /\ consumed' = Append(consumed, r.line)
        /\ IF next_line = <<"readyok">>
           THEN acc' = acc /\ Return(SyncResult(op, args, Join(acc, NL)))
           ELSE /\ acc' = Append(acc, SubSeq(r.line, 1, Len(r.line) - 1))
                /\ pc' = pc /\ result' = result
    /\ UNCHANGED <<fresh, args, engine, wrote, info, lineBuf, eofReads, movetime, depth>>

\* read_left_output, one turn of its loop
SyncRead ==
    /\ pc = "sync"
    /\ HasNewline(out)
    /\ op' = op
    /\ LET r == ReadLine(out)
           next_line == Trim(r.line)
       IN
        /\ out' = r.rest
        /\ consumed' = Append(consumed, r.line)
        /\ IF next_line = <<"readyok">>
           THEN acc' = acc /\ Return(SyncResult(op, args, Join(acc, NL)))
           ELSE acc' = Append(acc, next_line) /\ pc' = pc /\ result' = result
    /\ UNCHANGED <<fresh, args, engine, wrote, info, lineBuf, eofReads,
                   movetime, depth>>

\* the byte read_line holds in buf[0] when a read leaves it untouched
StaleByte(s) == IF s = <<>> THEN "\\0" ELSE s[Len(s)]

\* read_line on a closed stream with no newline left: the bytes left are
\* read, then read() returns Ok(0), buf[0] is pushed again and the loop goes on
ReadEof ==
    /\ pc \in Reading
    /\ engine = "exited"
    /\ ~HasNewline(out)
    /\ eofReads < MaxSpin
    /\ lineBuf' = lineBuf \o out \o <<StaleByte(lineBuf \o out)>>
    /\ out' = <<>>
    /\ eofReads' = eofReads + 1
    /\ UNCHANGED <<fresh, pc, op, args, result, engine, wrote, consumed, info,
                   acc, movetime, depth>>

\* read_line, read() returns Err: the ? hands it to the caller as Io
ReadFails ==
    /\ pc \in Reading
    /\ engine = "running"
    /\ op' = op
    /\ Return(ErrIo)
    /\ UNCHANGED <<fresh, args, engine, out, wrote, consumed, info, acc,
                   lineBuf, eofReads, movetime, depth>>

----------------------------------------------------------------------------
(* The engine.                                                             *)

\* the lines the engine is ahead of the start of the latest call
Ahead == Len(consumed) + Pending

\* the engine writes a line
EngineEmit(l) ==
    /\ engine = "running"
    /\ Ahead < MaxEmit
    /\ out' = out \o l
    /\ UNCHANGED <<fresh, pc, op, args, result, engine, wrote, consumed, info, acc,
                   lineBuf, eofReads, movetime, depth>>

\* the engine writes a line, and the line is counted in fresh
EngineEmitCounted(l) ==
    /\ engine = "running"
    /\ Ahead < MaxEmit
    /\ out' = out \o l
    /\ fresh' = fresh + 1
    /\ UNCHANGED <<pc, op, args, result, engine, wrote, consumed, info, acc,
                   lineBuf, eofReads, movetime, depth>>

\* a line starting with "bestmove" stands unread in the pipe
BestmovePending ==
    \E i \in 1..Len(out) : out[i] = "bestmove" /\ (i = 1 \/ out[i - 1] = NL)

\* the engine ends the search a go command started: it writes its bestmove
\* line, `bestmove <move>`, when none stands in the pipe yet
EngineAnswer ==
    /\ engine = "running"
    /\ pc \in {"bm", "ev"}
    /\ ~BestmovePending
    /\ out' = out \o BestmoveOnly
    /\ UNCHANGED <<fresh, pc, op, args, result, engine, wrote, consumed, info, acc,
                   lineBuf, eofReads, movetime, depth>>

\* the engine dies, possibly in the middle of a line
EngineExit(frag) ==
    /\ engine = "running"
    /\ engine' = "exited"
    /\ out' = out \o frag
    /\ UNCHANGED <<fresh, pc, op, args, result, wrote, consumed, info, acc,
                   lineBuf, eofReads, movetime, depth>>

----------------------------------------------------------------------------

\* the steps of the engine and of a caller that keeps the configuration the
\* session was constructed with
Next ==
    \/ \E spawned \in BOOLEAN : NewSpawn(spawned)
    \/ NewBanner
    \/ \E m \in {LongMoves} : MakeMoves(m)
    \/ \E f \in Fens, m \in {LongMoves} : MakeMovesFromPosition(f, m)
    \/ \E f \in Fens : SetPosition(f)
    \/ BestmoveCall
    \/ BestmoveRead
    \/ EvaluationCall
    \/ EvaluationRead
    \/ \E n \in OptionNames, v \in OptionValues : SetOptionCall(n, v)
    \/ \E c \in RawCommands : CommandCall(c)
    \/ CommandWake
    \/ SyncRead
    \/ ReadEof
    \/ ReadFails
    \/ \E l \in EngineLines : EngineEmit(l)
    \/ \E f \in Fragments : EngineExit(f)

Spec == Init /\ [][Next]_vars

\* the steps of a caller that also reconfigures the session and passes every
\* move list of the model, against an engine of few words whose lines are
\* counted
WireNext ==
    \/ \E spawned \in BOOLEAN : NewSpawn(spawned)
    \/ NewBanner
    \/ \E t \in Movetimes : Movetime(t)
    \/ \E d \in Depths : Depth(d)
    \/ \E m \in MoveLists : MakeMoves(m)
    \/ \E f \in Fens, m \in MoveLists : MakeMovesFromPosition(f, m)
    \/ \E f \in Fens : SetPosition(f)
    \/ BestmoveCall
    \/ BestmoveRead
    \/ EvaluationCall
    \/ EvaluationRead
    \/ \E n \in OptionNames, v \in OptionValues : SetOptionCall(n, v)
    \/ \E c \in RawCommands : CommandCall(c)
    \/ CommandWake
    \/ SyncRead
    \/ ReadEof
    \/ ReadFails
    \/ \E l \in TerseLines : EngineEmitCounted(l)
    \/ \E f \in {<<>>} : EngineExit(f)

WireSpec == Init /\ [][WireNext]_vars

\* the steps of a caller against an engine that stays alive and answers every
\* go command; a blocked read goes on once a line is there
LiveNext ==
    \/ \E spawned \in BOOLEAN : NewSpawn(spawned)
    \/ NewBanner
    \/ \E f \in Fens : SetPosition(f)
    \/ BestmoveCall
    \/ BestmoveRead
    \/ EvaluationCall
    \/ EvaluationRead
    \/ \E n \in OptionNames, v \in OptionValues : SetOptionCall(n, v)
    \/ \E c \in RawCommands : CommandCall(c)
    \/ CommandWake
    \/ SyncRead
    \/ ReadFails
    \/ \E l \in TerseLines : EngineEmit(l)
    \/ EngineAnswer

LiveSpec ==
    /\ Init
    /\ [][LiveNext]_vars
    /\ WF_vars(BestmoveRead)
    /\ WF_vars(EvaluationRead)
    /\ WF_vars(EngineAnswer)

----------------------------------------------------------------------------
(* Vocabulary of the properties.                                           *)

\* the operation o has ended otherwise than by an i/o error
Ended(o) == op = o /\ result.kind /= "none" /\ result /= ErrIo

\* a line without its final newline
Content(line) == SubSeq(line, 1, Len(line) - 1)

\* the fields of a text, separated by runs of whitespace
RECURSIVE FieldsFrom(_, _)
FieldsFrom(s, cur) ==
    IF s = <<>> THEN (IF cur = <<>> THEN <<>> ELSE <<cur>>)
    ELSE IF IsWs(Head(s))
         THEN (IF cur = <<>> THEN <<>> ELSE <<cur>>) \o FieldsFrom(Tail(s), <<>>)
         ELSE FieldsFrom(Tail(s), Append(cur, Head(s)))

Fields(s) == FieldsFrom(s, <<>>)

\* the positions of the lines of ls that start with word
Starting(ls, word) == {i \in 1..Len(ls) : StartsWith(ls[i], word)}

Max(S) == CHOOSE x \in S : \A y \in S : y <= x

Min(S) == CHOOSE x \in S : \A y \in S : x <= y

\* the last line of ls that starts with "info", the empty text if none does
LastInfo(ls) ==
    IF Starting(ls, "info") = {} THEN <<>> ELSE ls[Max(Starting(ls, "info"))]

\* the tokens of the info line evaluation retained, and where "cp" stands
InfoTokens == Split(info, " ")

CpAt == {i \in 1..Len(InfoTokens) : InfoTokens[i] = <<"cp">>}

\* what evaluation is to return when the token tok decides
Decided(tok) ==
    IF ParseI32(tok).ok THEN OkNum(ParseI32(tok).val) ELSE ErrNotFound

\* a line with a character that is not whitespace
NonBlank(line) == \E k \in 1..Len(line) : ~IsWs(line[k])

\* the lines read_left_output read for the operation that has ended
SyncLines == IF op = "new" THEN Tail(consumed) ELSE consumed

SyncEnded == op \in {"new", "command", "set_option"} /\ result.kind \in {"Ok", "Err"}
             /\ result /= ErrIo

\* a text made of the one-atom texts of ms with single spaces between them
Spaced(ms) ==
    [i \in 1..(IF ms = <<>> THEN 0 ELSE 2 * Len(ms) - 1) |->
        IF i % 2 = 1 THEN ms[(i + 1) \div 2][1] ELSE " "]

----------------------------------------------------------------------------
(* C1 *)

\* C1: when bestmove has ended, the lines it read are a run of lines that do
\* not start with "bestmove" closed by one that does, and the call returned
\* the second whitespace-separated field of that last line.
C1_BestmoveReturnsSecondField ==
    Ended("bestmove") =>
        /\ Starting(consumed, "bestmove") = {Len(consumed)}
        /\ Len(Fields(consumed[Len(consumed)])) >= 2
        /\ result = OkStr(Fields(consumed[Len(consumed)])[2])

----------------------------------------------------------------------------
(* C2 *)

\* C2: when evaluation has ended, the only line it read that starts with
\* "bestmove" is the last one it read, and what it returned is what the parse
\* yields for the last line starting with "info" among the lines it read (for
\* the empty text when there is none).
C2_LastInfoLineDecides ==
    Ended("evaluation") =>
        /\ Starting(consumed, "bestmove") = {Len(consumed)}
        /\ info = LastInfo(consumed)
        /\ result = EvaluationParse(LastInfo(consumed))

\* evaluation returned a number after two info lines that parse differently
C2_Witness ==
    /\ Ended("evaluation")
    /\ result.kind = "Ok"
    /\ \E i, j \in Starting(consumed, "info") :
        i < j /\ EvaluationParse(consumed[i]) /= EvaluationParse(consumed[j])

----------------------------------------------------------------------------
(* C3 *)

\* C3, as stated: when evaluation has ended and the retained info line has a
\* token "cp", the result is decided by the token after the LAST "cp".
C3_TokenAfterLastCpDecides ==
    (Ended("evaluation") /\ CpAt /= {}) =>
        result = Decided(InfoTokens[Max(CpAt) + 1])

\* C3, amended: when evaluation has ended and the retained info line has a
\* token "cp", the result is decided by the token after the FIRST "cp": the
\* integer it spells, NotFound when it spells none.
C3_TokenAfterFirstCpDecides ==
    (Ended("evaluation") /\ CpAt /= {}) =>
        /\ Min(CpAt) + 1 <= Len(InfoTokens)
        /\ result = Decided(InfoTokens[Min(CpAt) + 1])

\* evaluation ended on an info line with two "cp" tokens followed by
\* different integers
C3_Witness ==
    /\ Ended("evaluation")
    /\ Cardinality(CpAt) >= 2
    /\ Decided(InfoTokens[Min(CpAt) + 1]) /= Decided(InfoTokens[Max(CpAt) + 1])
    /\ result.kind = "Ok"

----------------------------------------------------------------------------
(* C4 *)

\* C4: when evaluation has ended, it returned NotFound if the retained info
\* line (empty when no info line came) has no token "cp" or if the token
\* after "cp" is no signed integer, and it returned -1933 if the line has
\* "cp -1933" followed by further fields.
C4_NotFoundOrTheScore ==
    Ended("evaluation") =>
        /\ CpAt = {} => result = ErrNotFound
        /\ (CpAt /= {} /\ ~ParseI32(InfoTokens[Min(CpAt) + 1]).ok)
              => result = ErrNotFound
        /\ (/\ CpAt /= {}
            /\ Min(CpAt) + 1 < Len(InfoTokens)
            /\ InfoTokens[Min(CpAt) + 1] = <<"-", "1933">>)
              => (result.kind = "Ok" /\ result.num = -1933)

\* evaluation returned NotFound for a mate score
C4_Witness ==
    /\ Ended("evaluation")
    /\ info = InfoMate
    /\ result = ErrNotFound

----------------------------------------------------------------------------
(* C5 *)

\* C5, as stated: when set_option has ended, it returned Ok if no line came
\* before the readyok line and UnknownOption(name) if at least one did.
C5_AnyLineFailsSetOption ==
    Ended("set_option") =>
        /\ Len(consumed) = 1 => result = OkUnit
        /\ Len(consumed) > 1 => result = ErrUnknownOption(args.name)

\* C5, amended: when set_option has ended, it returned UnknownOption(name) if
\* at least one line read before the readyok line has a character that is not
\* whitespace, and Ok otherwise: when no line came before it, and also when
\* every line before it was blank or whitespace only.
C5_NonBlankLineFailsSetOption ==
    Ended("set_option") =>
        IF \E i \in 1..(Len(consumed) - 1) : NonBlank(consumed[i])
        THEN result = ErrUnknownOption(args.name)
        ELSE result = OkUnit

\* set_option returned Ok although whitespace-only lines came before readyok
C5_Witness ==
    /\ Ended("set_option")
    /\ Len(consumed) = 3
    /\ \A i \in 1..2 : ~NonBlank(consumed[i])
    /\ result = OkUnit

----------------------------------------------------------------------------
(* C6 *)

\* C6, as stated: when a call of read_left_output has ended, the last line it
\* read is the first that equals "readyok" after trimming, and its text is the
\* lines read before that one, as they came but for their final newline,
\* joined by newlines in the order of arrival.
C6_SyncYieldsTheLinesAsRead ==
    SyncEnded =>
        /\ {i \in 1..Len(SyncLines) : Trim(SyncLines[i]) = <<"readyok">>}
              = {Len(SyncLines)}
        /\ acc = [i \in 1..(Len(SyncLines) - 1) |-> Content(SyncLines[i])]
        /\ op = "command" =>
              result = OkStr(Join([i \in 1..(Len(SyncLines) - 1) |->
                                      Content(SyncLines[i])], NL))

\* C6, amended: when a call of read_left_output has ended, the last line it
\* read is the first that equals "readyok" after trimming, and its text is the
\* lines read before that one, each stripped of its leading and trailing
\* whitespace, joined by newlines in the order of arrival; command returns
\* that text.
C6_SyncYieldsTheLinesTrimmed ==
    SyncEnded =>
        /\ {i \in 1..Len(SyncLines) : Trim(SyncLines[i]) = <<"readyok">>}
              = {Len(SyncLines)}
        /\ acc = [i \in 1..(Len(SyncLines) - 1) |-> Trim(SyncLines[i])]
        /\ op = "command" =>
              result = OkStr(Join([i \in 1..(Len(SyncLines) - 1) |->
                                      Trim(SyncLines[i])], NL))

\* command returned two different lines, one of which contains "readyok"
\* without being it
C6_Witness ==
    /\ Ended("command")
    /\ Len(consumed) = 3
    /\ consumed[1] /= consumed[2]
    /\ \E i \in 1..2 : \E k \in 1..Len(consumed[i]) : consumed[i][k] = "readyok"
    /\ result.kind = "Ok"

----------------------------------------------------------------------------
(* C7 *)

\* C7: when a call stands in its read loop, the engine has exited and no
\* whole line is left in the pipe, the next step of the call is to return
\* the i/o error.
C7_ClosedStreamEndsTheCall ==
    [][(pc \in Reading /\ engine = "exited" /\ ~HasNewline(out))
          => (pc' \notin Reading /\ result' = ErrIo)]_vars

----------------------------------------------------------------------------
(* C8 *)

\* C8, as stated: when new has returned the session, it has read exactly one
\* line and written exactly the line "uci".
C8_NewIsFireAndForget ==
    (Ended("new") /\ result.kind = "Ok") =>
        /\ Len(consumed) = 1
        /\ wrote = << <<"uci", NL>> >>

\* C8, amended: when new has returned the session, it has read the banner
\* line, written "uci" and then "isready", and read every line the engine
\* wrote after the banner up to and including the first that equals "readyok"
\* after trimming.
C8_NewDrainsUntilReadyOk ==
    (Ended("new") /\ result.kind = "Ok") =>
        /\ wrote = << <<"uci", NL>>, <<"isready", NL>> >>
        /\ Len(consumed) >= 2
        /\ {i \in 2..Len(consumed) : Trim(consumed[i]) = <<"readyok">>}
              = {Len(consumed)}

\* new returned the session after it read a line between the banner and the
\* readyok line
C8_Witness ==
    /\ Ended("new")
    /\ result.kind = "Ok"
    /\ Len(consumed) = 3
    /\ pc = "idle"

----------------------------------------------------------------------------
(* C9 *)

\* C9, as stated: when the spawn has failed, new has returned an error value,
\* and nothing was read or written.
C9_FailedSpawnIsAnErrorValue ==
    (op = "new" /\ engine = "none") =>
        /\ result.kind = "Err"
        /\ wrote = <<>> /\ consumed = <<>>

\* C9, amended: when the spawn has failed, new has panicked: it returned
\* neither a session nor an error value, and nothing was read or written.
C9_FailedSpawnPanics ==
    (op = "new" /\ engine = "none") =>
        /\ result = Panic
        /\ pc = "panicked"
        /\ wrote = <<>> /\ consumed = <<>>

\* the spawn has failed
C9_Witness == op = "new" /\ engine = "none" /\ pc /= "start"

----------------------------------------------------------------------------
(* C10 *)

\* C10: when a position call has returned Ok it has written exactly one line:
\* make_moves_from_position "position fen <fen> moves <moves>", the moves
\* separated by single spaces and the clause "moves " there for an empty list
\* too; set_position the line of make_moves_from_position for the empty
\* list; make_moves "position startpos moves <moves>".
C10_PositionLines ==
    /\ (op = "make_moves_from_position" /\ result = OkUnit) =>
          wrote = << <<"position", " ", "fen", " ">> \o args.fen
                       \o <<" ", "moves", " ">> \o Spaced(args.moves) \o <<NL>> >>
    /\ (op = "set_position" /\ result = OkUnit) =>
          wrote = << <<"position", " ", "fen", " ">> \o args.fen
                       \o <<" ", "moves", " ", NL>> >>
    /\ (op = "make_moves" /\ result = OkUnit) =>
          wrote = << <<"position", " ", "startpos", " ", "moves", " ">>
                       \o Spaced(args.moves) \o <<NL>> >>

\* make_moves_from_position returned Ok for an empty list of moves
C10_Witness ==
    /\ op = "make_moves_from_position"
    /\ args.moves = <<>>
    /\ result = OkUnit
    /\ pc = "idle"

----------------------------------------------------------------------------
(* C11 *)

\* what only the caller changes
CallerVars == <<pc, op, args, result, wrote, consumed, info, acc, lineBuf, eofReads>>

PositionOps == {"make_moves", "set_position", "make_moves_from_position"}

\* C11: a step of set_position, make_moves_from_position or make_moves
\* leaves the unread output of the engine, movetime and depth as they were.
C11_PositionCallsReadNothing ==
    [][(op' \in PositionOps /\ CallerVars' /= CallerVars)
          => (out' = out /\ movetime' = movetime /\ depth' = depth)]_vars

\* a position call has returned Ok and every line now in the pipe, at least
\* one, stood there when it was entered
C11_Witness ==
    /\ op \in PositionOps
    /\ result = OkUnit
    /\ Pending >= 1
    /\ fresh = 0
    /\ depth /= <<>>

----------------------------------------------------------------------------
(* C12 *)

\* C12: the session new returns has movetime 100 and no depth; a search call
\* that wrote has written exactly one line, "go movetime <movetime>" when
\* depth is unset and "go movetime <movetime> depth <depth>" when it is set,
\* with the values the session holds; a step of movetime sets movetime to its
\* argument and leaves depth, a step of depth sets depth to its argument and
\* leaves movetime, and no other step changes either.
C12_GoFollowsConfiguration ==
    /\ [](op = "new" => (movetime = 100 /\ depth = <<>>))
    /\ []((op \in {"bestmove", "evaluation"} /\ wrote /= <<>>) =>
            wrote = << IF depth = <<>>
                       THEN <<"go", " ", "movetime", " ", Decimal[movetime], NL>>
                       ELSE <<"go", " ", "movetime", " ", Decimal[movetime], " ",
                              "depth", " ", Decimal[depth[1]], NL>> >>)
    /\ [][/\ op' = "movetime" => (movetime' = args'.movetime /\ depth' = depth)
          /\ op' = "depth" => (depth' = args'.depth /\ movetime' = movetime)
          /\ op' \notin {"movetime", "depth"} => UNCHANGED <<movetime, depth>>]_vars

\* a search wrote its go line in a session set to movetime 50 and depth 1
C12_Witness ==
    /\ op \in {"bestmove", "evaluation"}
    /\ wrote /= <<>>
    /\ movetime = 50
    /\ depth = <<1>>

----------------------------------------------------------------------------
(* C13 *)

----------------------------------------------------------------------------
(* C14 *)

\* C14: bestmove leaves its read loop only on a line that starts with
\* "bestmove" or on an i/o error, and a move it returned comes after such a
\* line; and against an engine that stays alive and answers every go command
\* with a bestmove line, a bestmove or evaluation call that stands in its
\* read loop leaves it in the end.
C14_BlocksUntilBestmove ==
    /\ [][(pc = "bm" /\ pc' /= "bm") =>
            \/ result' = ErrIo
            \/ consumed' /= <<>> /\ StartsWith(consumed'[Len(consumed')], "bestmove")
         ]_vars
    /\ []((op = "bestmove" /\ result.kind = "Ok") =>
            (consumed /= <<>> /\ StartsWith(consumed[Len(consumed)], "bestmove")))
    /\ (pc \in {"bm", "ev"}) ~> (pc \notin {"bm", "ev"})

\* bestmove returned a move after it read a line that was not the answer
C14_Witness ==
    /\ op = "bestmove"
    /\ result.kind = "Ok"
    /\ Len(consumed) >= 2

----------------------------------------------------------------------------
(* C15, C16 *)

\* the number of whole lines that stood unread in the pipe when the operation
\* in progress was entered: all the lines there were, less those written since
StaleAtEntry == Len(consumed) + Pending - fresh

\* C15: when bestmove or evaluation has ended on a line that starts with
\* "bestmove", the engine wrote that line after the call was entered (and so
\* after its go command): it is not one of the lines that stood unread in the
\* pipe at entry.
C15_BestmoveLineAnswersThisCall ==
    (/\ Ended("bestmove") \/ Ended("evaluation")
     /\ consumed /= <<>>
     /\ StartsWith(consumed[Len(consumed)], "bestmove"))
    => Len(consumed) > StaleAtEntry

\* C16: when set_option has failed with UnknownOption, one of the lines it
\* collected is not blank and was written by the engine after the call was
\* entered.
C16_OnlyNewLinesFailSetOption ==
    (Ended("set_option") /\ result = ErrUnknownOption(args.name)) =>
        \E i \in (StaleAtEntry + 1)..(Len(consumed) - 1) : NonBlank(consumed[i])

----------------------------------------------------------------------------
(* C17 *)

\* C17: bestmove never panics, whatever the engine writes.
C17_BestmoveNeverPanics ==
    op = "bestmove" => result /= Panic

----------------------------------------------------------------------------
(* C18, C19 *)

\* C18: every line the reader handed over ends with a newline, the info line
\* evaluation retains too, so where "cp" is a token of that line a token
\* follows the first one, and evaluation never panics.
C18_TokenAfterCpIsInBounds ==
    /\ \A i \in 1..Len(consumed) : consumed[i][Len(consumed[i])] = NL
    /\ op = "evaluation" =>
        /\ info /= <<>> => info[Len(info)] = NL
        /\ CpAt /= {} => Min(CpAt) + 1 <= Len(InfoTokens)
        /\ result /= Panic

\* evaluation has ended on a retained line whose last token is "cp" with the
\* newline
C18_Witness ==
    /\ Ended("evaluation")
    /\ info = InfoCpEnd
    /\ InfoTokens[Len(InfoTokens)] = <<"cp", NL>>
    /\ result = ErrNotFound

\* C19: when evaluation has ended and the token after the first "cp" of the
\* retained line is, but for the whitespace around it, an integer, the call
\* returned that integer.
C19_ScoreBeforeTheNewlineIsReturned ==
    (/\ Ended("evaluation")
     /\ CpAt /= {}
     /\ Min(CpAt) + 1 <= Len(InfoTokens)
     /\ ParseI32(Trim(InfoTokens[Min(CpAt) + 1])).ok)
    => result = OkNum(ParseI32(Trim(InfoTokens[Min(CpAt) + 1])).val)

=============================================================================
